---- MODULE Spec2Model ----
(***************************************************************************)
(* The listbox controller of patternfly-elements (ListboxController) as a  *)
(* state machine: filter, visible options, single/multi selection, the     *)
(* roving-tabindex tracker it drives and the notifications it dispatches.  *)
(*                                                                         *)
(* A handler of the controller is an operator from a controller state (a   *)
(* record `s`) to the state the handler leaves; an action applies one      *)
(* handler to the current state.  Strings are sequences of one-character   *)
(* strings, so that the regular expression the filter is compiled to is    *)
(* evaluated character by character.                                       *)
(***************************************************************************)
EXTENDS Integers, Sequences, FiniteSets, TLC

(***************************************************************************)
(* Bounds of the model.                                                    *)
(***************************************************************************)
\* number of option elements that exist (the universe setOptions draws from)
NumOpts == 12
\* longest option list of the event specifications (SpecSingle, SpecMulti)
MaxListLen == 3

\* "no element": null / undefined
Null == 0
\* an element that is not an option (an external text input, the host)
External == -1
\* the option elements
Opt == 1..NumOpts

(***************************************************************************)
(* Option elements: text content, disabled attribute.                      *)
(***************************************************************************)
\* text of the options: the colours of the test fixture, then others
Texts ==
  << <<"B","l","u","e">>,
     <<"G","r","e","e","n">>,
     <<"M","a","g","e","n","t","a">>,
     <<"O","r","a","n","g","e">>,
     <<"P","u","r","p","l","e">>,
     <<"P","i","n","k">>,
     <<"R","e","d">>,
     <<"Y","e","l","l","o","w">>,
     <<"1",".","5">>,
     <<"1","0","5">>,
     <<"r","o","s","e">>,
     <<>> >>

\* option.textContent || ''
TextOf(o) == Texts[((o - 1) % Len(Texts)) + 1]

\* option.hasAttribute('disabled')
DisabledOf(o) == FALSE

\* option.hidden: the `hidden` attribute, which nothing here sets
HiddenOf(o) == FALSE

\* option.value: a string, told apart from the option elements; as in the test
\* fixture, the options that share a text share a value
ValueOf(o) == 100 + ((o - 1) % Len(Texts)) + 1

\* option.id: every option element has its own id
IdOf(o) == o

(***************************************************************************)
(* Characters and the regular expressions built from the filter text.     *)
(* Modelled subset of the RegExp syntax: a literal character, `.` (any     *)
(* character), `(` with no `)` (an unterminated group) and a leading `*`   *)
(* (nothing to repeat): for these two the RegExp constructor throws        *)
(* SyntaxError.                                                            *)
(***************************************************************************)
UpperChars == <<"A","B","C","D","E","F","G","H","I","J","K","L","M",
                "N","O","P","Q","R","S","T","U","V","W","X","Y","Z">>
LowerChars == <<"a","b","c","d","e","f","g","h","i","j","k","l","m",
                "n","o","p","q","r","s","t","u","v","w","x","y","z">>

\* case folding of the `i` flag
Fold(c) ==
  IF \E i \in 1..Len(UpperChars) : UpperChars[i] = c
  THEN LowerChars[CHOOSE i \in 1..Len(UpperChars) : UpperChars[i] = c]
  ELSE c

\* /^[\w]$/ : one word character
IsWordChar(c) ==
  \/ \E i \in 1..Len(UpperChars) : UpperChars[i] = c \/ LowerChars[i] = c
  \/ c \in {"0","1","2","3","4","5","6","7","8","9","_"}

Range(f) == {f[i] : i \in DOMAIN f}

\* new RegExp(source) throws SyntaxError
RegExpThrows(source) ==
  \/ "(" \in Range(source)                  \* unterminated group
  \/ (source # <<>> /\ source[1] = "*")     \* nothing to repeat

\* one pattern character against one text character
CharMatches(p, c, ignoreCase) ==
  \/ p = "."
  \/ IF ignoreCase THEN Fold(p) = Fold(c) ELSE p = c

\* the pattern matches the text at position i
MatchesAt(text, pat, i, ignoreCase) ==
  /\ i + Len(pat) - 1 <= Len(text)
  /\ \A k \in 1..Len(pat) : CharMatches(pat[k], text[i + k - 1], ignoreCase)

\* text.match(new RegExp(`${anchored ? '^' : ''}${pat}`, ignoreCase ? 'i' : ''))
RegExpMatch(text, pat, anchored, ignoreCase) ==
  IF anchored
  THEN MatchesAt(text, pat, 1, ignoreCase)
  ELSE \E i \in 1..(Len(text) + 1) : MatchesAt(text, pat, i, ignoreCase)

(***************************************************************************)
(* Sequences.                                                              *)
(***************************************************************************)
\* array.includes(x)
Includes(seq, x) == \E i \in DOMAIN seq : seq[i] = x

\* array.indexOf(x), 0-based, -1 when absent
IndexOf(seq, x) ==
  IF Includes(seq, x)
  THEN (CHOOSE i \in DOMAIN seq : seq[i] = x /\ \A j \in 1..(i - 1) : seq[j] # x) - 1
  ELSE -1

\* array.filter(Keep), Keep given as the set of kept elements
FilterSeq(seq, kept) == SelectSeq(seq, LAMBDA x : x \in kept)


\* String(n) of an integer, as character codes ("-" is 45, "0" is 48)
RECURSIVE DigitsOf(_)
DigitsOf(n) == IF n < 10 THEN <<48 + n>> ELSE Append(DigitsOf(n \div 10), 48 + (n % 10))
NumberToString(n) == IF n < 0 THEN <<45>> \o DigitsOf(-n) ELSE DigitsOf(n)

\* a < b in the order of UTF-16 code units, as strings
RECURSIVE CodeUnitsLess(_, _)
CodeUnitsLess(a, b) ==
  IF b = <<>> THEN FALSE
  ELSE IF a = <<>> THEN TRUE
  ELSE IF Head(a) # Head(b) THEN Head(a) < Head(b)
  ELSE CodeUnitsLess(Tail(a), Tail(b))

\* [x, y].sort(): no compare function, so the elements are compared as strings
DefaultSortPair(x, y) ==
  IF CodeUnitsLess(NumberToString(y), NumberToString(x)) THEN <<y, x>> ELSE <<x, y>>

\* array.slice(start, end): 0-based, end exclusive, negative indices count from the end
RelativeIndex(len, k) == IF k < 0 THEN (IF len + k < 0 THEN 0 ELSE len + k)
                         ELSE (IF k > len THEN len ELSE k)
Slice(seq, start, end) ==
  LET from == RelativeIndex(Len(seq), start)
      to   == RelativeIndex(Len(seq), end)
  IN  IF from < to THEN SubSeq(seq, from + 1, to) ELSE <<>>

(***************************************************************************)
(* The state.  Fields of the controller, of the option elements, of the    *)
(* roving-tabindex tracker, and of the document.                           *)
(***************************************************************************)
VARIABLES
  options,               \* #options: the full option list
  filter,                \* #filter
  showAllOptions,        \* #showAllOptions
  caseSensitive,         \* #caseSensitive
  disableFilter,         \* #disableFilter
  matchAnywhere,         \* #matchAnywhere
  shiftStartingItem,     \* #shiftStartingItem
  updateFocus,           \* #updateFocus
  ariaActivedescendant,  \* #internals.ariaActivedescendant (an option id or Null)
  ariaDisabled,          \* #internals.ariaDisabled = 'true'
  ariaMultiSelectable,   \* #internals.ariaMultiSelectable = 'true'
  ariaOrientation,       \* #internals.ariaOrientation ('' when never assigned)
  selected,              \* option.selected, per option element
  hiddenByFilter,        \* the hidden-by-filter attribute, per option element
  activeDescendant,      \* the active-descendant attribute, per option element
  posInSet,              \* option.posInSet as assigned, per option element
  setSize,               \* option.setSize as assigned, per option element
  items,                 \* the tracker's items
  tabActive,             \* the tracker's active item
  activeElement,         \* document.activeElement (an option, External or Null)
  fired,                 \* notifications the last handler dispatched, in order
  seen,                  \* what a listener saw at each of these notifications
  threw,                 \* the last handler ended by an exception
  defaultPrevented,      \* the last handler stopped and default-prevented its event
  last,                  \* the last operation and its arguments
  devServer              \* the dev server's getManifests call: its locals and position

vars == <<options, filter, showAllOptions, caseSensitive, disableFilter, matchAnywhere,
          shiftStartingItem, updateFocus, ariaActivedescendant, ariaDisabled,
          ariaMultiSelectable, selected, hiddenByFilter, activeDescendant, posInSet,
          setSize, items, tabActive, activeElement, fired, threw, defaultPrevented, last,
          ariaOrientation, seen, devServer>>

\* the dev server before getManifests is called
NotCalled ==
  [pc |-> "idle", count |-> 0, manifests |-> {}, waited |-> 0, available |-> {}]

\* the current state as one record
Cur ==
  [ options |-> options, filter |-> filter, showAllOptions |-> showAllOptions,
    caseSensitive |-> caseSensitive, disableFilter |-> disableFilter,
    matchAnywhere |-> matchAnywhere, shiftStartingItem |-> shiftStartingItem,
    updateFocus |-> updateFocus, ariaActivedescendant |-> ariaActivedescendant,
    ariaDisabled |-> ariaDisabled, ariaMultiSelectable |-> ariaMultiSelectable,
    selected |-> selected, hiddenByFilter |-> hiddenByFilter,
    activeDescendant |-> activeDescendant, posInSet |-> posInSet, setSize |-> setSize,
    items |-> items, tabActive |-> tabActive, activeElement |-> activeElement,
    fired |-> fired, threw |-> threw, defaultPrevented |-> defaultPrevented,
    ariaOrientation |-> ariaOrientation, seen |-> seen ]

\* the state a handler starts from: nothing dispatched, nothing thrown yet
Enter(s) ==
  [s EXCEPT !.fired = <<>>, !.seen = <<>>, !.threw = FALSE, !.defaultPrevented = FALSE]

\* the next state is s, reached by operation op
Becomes(s, op) ==
  /\ options' = s.options
  /\ filter' = s.filter
  /\ showAllOptions' = s.showAllOptions
  /\ caseSensitive' = s.caseSensitive
  /\ disableFilter' = s.disableFilter
  /\ matchAnywhere' = s.matchAnywhere
  /\ shiftStartingItem' = s.shiftStartingItem
  /\ updateFocus' = s.updateFocus
  /\ ariaActivedescendant' = s.ariaActivedescendant
  /\ ariaDisabled' = s.ariaDisabled
  /\ ariaMultiSelectable' = s.ariaMultiSelectable
  /\ selected' = s.selected
  /\ hiddenByFilter' = s.hiddenByFilter
  /\ activeDescendant' = s.activeDescendant
  /\ posInSet' = s.posInSet
  /\ setSize' = s.setSize
  /\ items' = s.items
  /\ tabActive' = s.tabActive
  /\ activeElement' = s.activeElement
  /\ fired' = s.fired
  /\ threw' = s.threw
  /\ defaultPrevented' = s.defaultPrevented
  /\ ariaOrientation' = s.ariaOrientation
  /\ seen' = s.seen
  /\ last' = op
  /\ devServer' = devServer

\* the state is s, reached by operation op
StateIs(s, op) ==
  /\ options = s.options
  /\ filter = s.filter
  /\ showAllOptions = s.showAllOptions
  /\ caseSensitive = s.caseSensitive
  /\ disableFilter = s.disableFilter
  /\ matchAnywhere = s.matchAnywhere
  /\ shiftStartingItem = s.shiftStartingItem
  /\ updateFocus = s.updateFocus
  /\ ariaActivedescendant = s.ariaActivedescendant
  /\ ariaDisabled = s.ariaDisabled
  /\ ariaMultiSelectable = s.ariaMultiSelectable
  /\ selected = s.selected
  /\ hiddenByFilter = s.hiddenByFilter
  /\ activeDescendant = s.activeDescendant
  /\ posInSet = s.posInSet
  /\ setSize = s.setSize
  /\ items = s.items
  /\ tabActive = s.tabActive
  /\ activeElement = s.activeElement
  /\ fired = s.fired
  /\ threw = s.threw
  /\ defaultPrevented = s.defaultPrevented
  /\ ariaOrientation = s.ariaOrientation
  /\ seen = s.seen
  /\ last = op
  /\ devServer = NotCalled

\* f(s), unless an exception is already propagating
Then(s, f(_)) == IF s.threw THEN s ELSE f(s)

(***************************************************************************)
(* Roving-tabindex tracker (RovingTabindexController).                     *)
(***************************************************************************)
\* #tabindex.firstItem
firstItem(s) == IF s.items = <<>> THEN Null ELSE s.items[1]

\* #tabindex.lastItem
lastItem(s) == IF s.items = <<>> THEN Null ELSE s.items[Len(s.items)]

\* #tabindex.initItems(list): the active pointer is reset to the first item
initItems(s, list) ==
  [s EXCEPT !.items = list, !.tabActive = IF list = <<>> THEN Null ELSE list[1]]

\* #tabindex.updateItems(list): the active item is kept if still in the list
updateItems(s, list) ==
  [s EXCEPT !.items = list,
            !.tabActive = IF Includes(list, s.tabActive) THEN s.tabActive
                          ELSE IF list = <<>> THEN Null ELSE list[1]]

\* #tabindex.updateActiveItem(item): the pointer moves, input focus does not
updateActiveItem(s, item) == [s EXCEPT !.tabActive = item]

\* #tabindex.focusOnItem(item): the pointer and input focus move to item
focusOnItem(s, item) ==
  IF item = Null \/ s.items = <<>> THEN s
  ELSE [s EXCEPT !.tabActive = item, !.activeElement = item]


(***************************************************************************)
(* ListboxController: getters.                                             *)
(***************************************************************************)
\* get disabled
disabled(s) == s.ariaDisabled

\* get multiSelectable
multiSelectable(s) == s.ariaMultiSelectable

\* option.selected of an element (undefined, so falsy, on a non-option)
SelectedOf(s, x) == IF x \in Opt THEN s.selected[x] ELSE FALSE

\* get selectedOptions
selectedOptions(s) == FilterSeq(s.options, {o \in Opt : s.selected[o]})

\* the first selected option, undefined (Null) when there is none
firstSelected(s) ==
  IF selectedOptions(s) = <<>> THEN Null ELSE selectedOptions(s)[1]

\* get value: the array of selected options, or the first selected option
value(s) == IF multiSelectable(s) THEN selectedOptions(s) ELSE firstSelected(s)

\* oldValue !== this.value, oldValue read in state old and this.value in state s:
\* selectedOptions is a new array at every access, never identical to an older one
valueDiffers(old, s) ==
  IF multiSelectable(s) THEN TRUE ELSE firstSelected(old) # firstSelected(s)

\* get activeItem
activeItem(s) ==
  LET active == FilterSeq(s.options, {o \in Opt : IdOf(o) = s.ariaActivedescendant})
  IN  IF active # <<>> THEN active[1] ELSE firstItem(s)

\* faulty variant of filtering: the disableFilter flag is not consulted
filteringIgnoresDisable(s) == ~(s.filter = <<"*">> \/ s.showAllOptions)

\* the filter is applied: !(disableFilter || filter === '*' || #showAllOptions)
filtering(s) == ~(s.disableFilter \/ s.filter = <<"*">> \/ s.showAllOptions)

\* get visibleOptions throws: the RegExp is built for the first option filtered
visibleOptionsThrows(s) ==
  filtering(s) /\ s.options # <<>> /\ RegExpThrows(s.filter)

\* the callback of this.options.filter(...) in get visibleOptions
optionMatches(s, o) ==
  \/ s.filter = <<>>
  \/ RegExpMatch(TextOf(o), s.filter, ~s.matchAnywhere, ~s.caseSensitive)

\* get visibleOptions: the array returned
visibleOptions(s) ==
  LET matchedOptions ==
        IF filtering(s)
        THEN FilterSeq(s.options, {o \in Opt : optionMatches(s, o)})
        ELSE <<>>
  IN  IF Len(matchedOptions) < 1 THEN s.options ELSE matchedOptions

\* get visibleOptions: the state it leaves (hidden-by-filter, #updateFocus)
visibleOptionsMarks(s) ==
  IF visibleOptionsThrows(s) THEN [s EXCEPT !.threw = TRUE]
  ELSE LET matchedOptions == visibleOptions(s)
       IN  [s EXCEPT
             !.hiddenByFilter =
                [o \in Opt |-> IF Includes(s.options, o)
                               THEN ~Includes(matchedOptions, o)
                               ELSE s.hiddenByFilter[o]],
             !.updateFocus =
                \/ s.updateFocus
                \/ \E i \in DOMAIN s.options :
                     /\ ~Includes(matchedOptions, s.options[i])
                     /\ s.activeElement = s.options[i]]

(***************************************************************************)
(* ListboxController: notifications.                                       *)
(***************************************************************************)
\* host.dispatchEvent(event): the listeners run now, and see the selected flags, the
\* tracker's active item and the active-descendant attributes as they are now
dispatchEvent(s, type) ==
  [s EXCEPT !.fired = Append(@, type),
            !.seen = Append(@, [selected |-> s.selected, tabActive |-> s.tabActive,
                                activeDescendant |-> s.activeDescendant])]

\* #fireChange
fireChange(s) == dispatchEvent(s, "change")

\* #fireInput
fireInput(s) == dispatchEvent(s, "input")

(***************************************************************************)
(* ListboxController: filter and option list.                              *)
(***************************************************************************)
\* faulty variant of #onFilterChange: an option hidden by the filter is deselected
onFilterChangeDeselectsHidden(s) ==
  IF disabled(s) THEN s
  ELSE LET s0 == visibleOptionsMarks(s)
           s1 == [s0 EXCEPT !.selected = [o \in Opt |-> @[o] /\ ~s0.hiddenByFilter[o]]]
           s2 == IF s.updateFocus
                 THEN Then(s1, LAMBDA x : [updateItems(x, visibleOptions(s))
                                             EXCEPT !.updateFocus = FALSE])
                 ELSE Then(s1, LAMBDA x : initItems(x, visibleOptions(s)))
       IN  Then(s2, LAMBDA x : IF valueDiffers(s, x) THEN fireInput(x) ELSE x)

\* #onFilterChange
onFilterChange(s) ==
  IF disabled(s) THEN s
  ELSE LET s1 == visibleOptionsMarks(s)
           s2 == IF s.updateFocus
                 THEN Then(s1, LAMBDA x : [updateItems(x, visibleOptions(s))
                                             EXCEPT !.updateFocus = FALSE])
                 ELSE Then(s1, LAMBDA x : initItems(x, visibleOptions(s)))
       IN  Then(s2, LAMBDA x : IF valueDiffers(s, x) THEN fireInput(x) ELSE x)

\* set filter
setFilter(s, filterText) ==
  IF s.filter # filterText THEN onFilterChange([s EXCEPT !.filter = filterText]) ELSE s

\* set caseSensitive
setCaseSensitive(s, b) ==
  IF s.caseSensitive # b THEN onFilterChange([s EXCEPT !.caseSensitive = b]) ELSE s

\* set disableFilter
setDisableFilter(s, b) ==
  IF s.disableFilter # b THEN onFilterChange([s EXCEPT !.disableFilter = b]) ELSE s

\* set matchAnywhere
setMatchAnywhere(s, b) ==
  IF s.matchAnywhere # b THEN onFilterChange([s EXCEPT !.matchAnywhere = b]) ELSE s

\* set multiSelectable
setMultiSelectable(s, b) == [s EXCEPT !.ariaMultiSelectable = b]

\* set disabled
setDisabled(s, b) == [s EXCEPT !.ariaDisabled = b]

\* set orientation
setOrientation(s, o) == [s EXCEPT !.ariaOrientation = o]

\* get orientation: #internals.ariaOrientation || ''
orientation(s) == s.ariaOrientation

\* PfSelectOption: set posInSet / set setSize, `${Math.max(0, parseInt(n || '0'))}`
publishedNumber(n) == IF n < 0 THEN 0 ELSE n

\* faulty variant of setOptions: the annotations are computed over the visible
\* options of the new list
setOptionsAnnotatesVisible(s, list) ==
  IF Len(list) # Len(s.options) \/ \E i \in DOMAIN list : list[i] # s.options[i]
  THEN LET s0 == [s EXCEPT !.options = list]
           shown == IF visibleOptionsThrows(s0) THEN list ELSE visibleOptions(s0)
           s1 == [s0 EXCEPT
                   !.setSize = [o \in Opt |-> IF Includes(list, o)
                                              THEN publishedNumber(Len(shown))
                                              ELSE s.setSize[o]],
                   !.posInSet = [o \in Opt |-> IF Includes(list, o)
                                               THEN publishedNumber(IndexOf(shown, o))
                                               ELSE s.posInSet[o]]]
       IN  Then(visibleOptionsMarks(s1), LAMBDA x : initItems(x, visibleOptions(s1)))
  ELSE s

\* set options
setOptions(s, list) ==
  IF Len(list) # Len(s.options) \/ \E i \in DOMAIN list : list[i] # s.options[i]
  THEN LET s1 == [s EXCEPT
                   !.setSize = [o \in Opt |-> IF Includes(list, o)
                                              THEN publishedNumber(Len(list))
                                              ELSE s.setSize[o]],
                   !.posInSet = [o \in Opt |-> IF Includes(list, o)
                                               THEN publishedNumber(IndexOf(list, o))
                                               ELSE s.posInSet[o]],
                   !.options = list]
       IN  Then(visibleOptionsMarks(s1), LAMBDA x : initItems(x, visibleOptions(s1)))
  ELSE s

\* faulty variant of setValue: every option is matched by identity
setValueByIdentity(s, isArray, list) ==
  LET first == IF list = <<>> THEN Null ELSE list[1]
      s1 == [s EXCEPT !.selected = [o \in Opt |-> IF Includes(s.options, o)
                                                  THEN first = o
                                                  ELSE s.selected[o]]]
  IN  IF valueDiffers(s, s1) THEN fireInput(s1) ELSE s1

\* set value: optionsList is the array list when isArray, and otherwise the scalar
\* list[1] (undefined or null when list is empty)
setValue(s, isArray, list) ==
  LET first == IF list = <<>> THEN Null ELSE list[1]
      sel(o) == IF multiSelectable(s) /\ isArray THEN Includes(list, ValueOf(o))
                ELSE first = o
      s1 == [s EXCEPT !.selected = [o \in Opt |-> IF Includes(s.options, o)
                                                  THEN sel(o)
                                                  ELSE s.selected[o]]]
  IN  IF valueDiffers(s, s1) THEN fireInput(s1) ELSE s1

\* String.prototype.split(','): the pieces of text between its commas
RECURSIVE SplitFrom(_, _, _)
SplitFrom(text, i, piece) ==
  IF i > Len(text) THEN <<piece>>
  ELSE IF text[i] = "," THEN <<piece>> \o SplitFrom(text, i + 1, <<>>)
  ELSE SplitFrom(text, i + 1, Append(piece, text[i]))

\* val?.split(',') || []  (val is null when isNull)
splitVal(isNull, text) == IF isNull THEN <<>> ELSE SplitFrom(text, 1, <<>>)

\* faulty variant of isValid: one token that is an option's text is enough
isValidSome(s, isNull, text) ==
  LET vals == splitVal(isNull, text)
      texts == [i \in DOMAIN s.options |-> TextOf(s.options[i])]
  IN  \E i \in DOMAIN vals : Includes(texts, vals[i])

\* isValid(val): what it returns
isValid(s, isNull, text) ==
  LET vals == splitVal(isNull, text)
      texts == [i \in DOMAIN s.options |-> TextOf(s.options[i])]
  IN  \A i \in DOMAIN vals : Includes(texts, vals[i])

\* options.key of the ListboxConfigOptions, undefined (so falsy: FALSE) when the
\* key is not supplied
ConfigOption(config, key) == IF key \in DOMAIN config THEN config[key] ELSE FALSE

\* constructor, with the ListboxConfigOptions it is given
construct(config) ==
  LET s0 == [ options |-> <<>>, filter |-> <<>>, showAllOptions |-> FALSE,
              caseSensitive |-> ConfigOption(config, "caseSensitive"),
              disableFilter |-> FALSE,
              matchAnywhere |-> FALSE, shiftStartingItem |-> Null,
              updateFocus |-> FALSE, ariaActivedescendant |-> Null,
              ariaDisabled |-> FALSE, ariaMultiSelectable |-> FALSE,
              selected |-> [o \in Opt |-> FALSE],
              hiddenByFilter |-> [o \in Opt |-> FALSE],
              activeDescendant |-> [o \in Opt |-> FALSE],
              posInSet |-> [o \in Opt |-> 0], setSize |-> [o \in Opt |-> 0],
              items |-> <<>>, tabActive |-> Null, activeElement |-> Null,
              fired |-> <<>>, threw |-> FALSE, defaultPrevented |-> FALSE,
              ariaOrientation |-> "", seen |-> <<>> ]
  IN  setDisableFilter(s0, ConfigOption(config, "disableFilter"))


(***************************************************************************)
(* ListboxController: active descendant and selection.                     *)
(***************************************************************************)
\* the body of the forEach of #updateActiveDescendant, for one option
activeDescendantStep(s, option) ==
  LET clear(x) == [x EXCEPT
                    !.ariaActivedescendant = IF @ = IdOf(option) THEN Null ELSE @,
                    !.activeDescendant[option] = FALSE]
  IN  IF option = s.tabActive
      THEN Then(visibleOptionsMarks(s),
                LAMBDA x : IF Includes(visibleOptions(s), option)
                           THEN [x EXCEPT !.ariaActivedescendant = IdOf(option),
                                          !.activeDescendant[option] = TRUE]
                           ELSE clear(x))
      ELSE clear(s)

\* #updateActiveDescendant, from the i-th option on
RECURSIVE updateActiveDescendantFrom(_, _)
updateActiveDescendantFrom(s, i) ==
  IF i > Len(s.options) \/ s.threw THEN s
  ELSE updateActiveDescendantFrom(activeDescendantStep(s, s.options[i]), i + 1)

\* #updateActiveDescendant
updateActiveDescendant(s) == updateActiveDescendantFrom(s, 1)

\* #updateSingleselect
updateSingleselect(s) ==
  IF ~multiSelectable(s)
  THEN fireChange([s EXCEPT
         !.selected = [o \in Opt |-> IF Includes(s.options, o)
                                     THEN IdOf(o) = s.ariaActivedescendant
                                     ELSE s.selected[o]]])
  ELSE s

\* #updateMultiselect: the options between the reference item and the current item
rangeOptions(s, currentItem, referenceItem) ==
  LET range == DefaultSortPair(IndexOf(s.options, referenceItem),
                               IndexOf(s.options, currentItem))
  IN  Slice(s.options, range[1], range[2] + 1)

\* #updateMultiselect(currentItem, referenceItem, ctrlKey)
updateMultiselect(s, currentItem, referenceItem, ctrlKey) ==
  IF multiSelectable(s)
  THEN LET opts == rangeOptions(s, currentItem, referenceItem)
           allSelected == ctrlKey /\ \A i \in DOMAIN opts : s.selected[opts[i]]
           toggle == IF ctrlKey /\ allSelected THEN FALSE
                     ELSE IF ctrlKey THEN TRUE
                     ELSE SelectedOf(s, referenceItem)
       IN  IF ~ctrlKey /\ referenceItem = Null
           THEN [s EXCEPT !.threw = TRUE]   \* referenceItem.selected of undefined
           ELSE [s EXCEPT
                  !.selected = [o \in Opt |-> IF Includes(opts, o) THEN toggle
                                              ELSE s.selected[o]],
                  !.shiftStartingItem = currentItem]
  ELSE s

\* faulty variant of toggleSelected: the option is selected, never deselected
toggleSelectedOn(s, target) ==
  IF target \in Opt THEN [s EXCEPT !.selected[target] = TRUE] ELSE s

\* target.selected = !target.selected
toggleSelected(s, target) ==
  IF target \in Opt THEN [s EXCEPT !.selected[target] = ~@] ELSE s

(***************************************************************************)
(* ListboxController: event handlers.                                      *)
(***************************************************************************)
\* #onOptionFocus
onOptionFocus(s, target) ==
  LET s1 == IF target # s.tabActive THEN updateActiveItem(s, target) ELSE s
  IN  updateActiveDescendant(s1)

\* faulty variant of clickSelection: a single-select click leaves the other
\* options as they were
clickSelectionKeepsOthers(s, target, shiftKey) ==
  IF multiSelectable(s)
  THEN IF ~shiftKey THEN toggleSelected(s, target)
       ELSE IF s.shiftStartingItem # Null /\ target # Null
            THEN Then(updateMultiselect(s, target, s.shiftStartingItem, FALSE),
                      fireChange)
            ELSE s
  ELSE toggleSelectedOn(s, target)

\* faulty variant of clickSelection: a single-select click flips the target and
\* leaves the other options as they were
clickSelectionFlipsTarget(s, target, shiftKey) ==
  IF multiSelectable(s)
  THEN IF ~shiftKey THEN toggleSelected(s, target)
       ELSE IF s.shiftStartingItem # Null /\ target # Null
            THEN Then(updateMultiselect(s, target, s.shiftStartingItem, FALSE),
                      fireChange)
            ELSE s
  ELSE toggleSelected(s, target)

\* #onOptionClick: the selection it makes
clickSelection(s, target, shiftKey) ==
  IF multiSelectable(s)
  THEN IF ~shiftKey THEN toggleSelected(s, target)
       ELSE IF s.shiftStartingItem # Null /\ target # Null
            THEN Then(updateMultiselect(s, target, s.shiftStartingItem, FALSE),
                      fireChange)
            ELSE s
  ELSE [s EXCEPT !.selected = [o \in Opt |-> IF Includes(s.options, o)
                                             THEN o = target
                                             ELSE s.selected[o]]]

\* #onOptionClick
onOptionClick(s, target, shiftKey, ctrlKey) ==
  LET s1 == clickSelection(s, target, shiftKey)
      s2 == Then(s1, LAMBDA x : IF target # x.tabActive
                                THEN updateActiveDescendant(focusOnItem(x, target))
                                ELSE x)
  IN  Then(s2, LAMBDA x : IF valueDiffers(s, x) THEN fireChange(x) ELSE x)

\* #onOptionKeyup
onOptionKeyup(s, target, key, shiftKey) ==
  IF shiftKey /\ multiSelectable(s)
  THEN LET s1 == IF s.shiftStartingItem # Null /\ target # Null
                 THEN Then(updateMultiselect(s, target, s.shiftStartingItem, FALSE),
                           fireChange)
                 ELSE s
       IN  Then(s1, LAMBDA x : IF key = "Shift"
                               THEN [x EXCEPT !.shiftStartingItem = Null]
                               ELSE x)
  ELSE s

\* #nextMatchingItem: the item found, undefined (Null) when there is none
nextMatchingItem(s, key) ==
  LET its == visibleOptions(s)
      index == IF activeItem(s) = Null THEN IndexOf(its, activeItem(s)) ELSE -1
      sequence == Slice(its, index, Len(its)) \o Slice(its, 0, index)
      hit(o) == /\ ~DisabledOf(o)
                /\ ~HiddenOf(o)
                /\ RegExpMatch(TextOf(o), <<key>>, TRUE, ~s.caseSensitive)
  IN  IF \E i \in DOMAIN sequence : hit(sequence[i])
      THEN sequence[CHOOSE i \in DOMAIN sequence :
                      hit(sequence[i]) /\ \A j \in 1..(i - 1) : ~hit(sequence[j])]
      ELSE Null

\* event.stopPropagation(); event.preventDefault()
stopEvent(s) == [s EXCEPT !.defaultPrevented = TRUE]

\* #onOptionKeydown: Enter or Space
keydownEnter(s, target, shiftKey) ==
  IF target # Null
  THEN stopEvent(
         IF multiSelectable(s)
         THEN IF shiftKey THEN updateMultiselect(s, target, activeItem(s), FALSE)
              ELSE toggleSelected(s, target)
         ELSE updateSingleselect(s))
  ELSE s

\* #onOptionKeydown; event e has key, shiftKey, ctrlKey, altKey, metaKey
onOptionKeydown(s, target, e) ==
  LET s0 == [s EXCEPT !.showAllOptions = FALSE]
      s1 == IF e.key = "Shift" /\ multiSelectable(s0)
            THEN [s0 EXCEPT !.shiftStartingItem = activeItem(s0)]
            ELSE s0
      finish(x) == IF x.threw THEN x
                   ELSE IF valueDiffers(s1, x) THEN fireChange(x) ELSE x
  IN  IF e.altKey \/ e.metaKey THEN s1
      ELSE IF e.ctrlKey
      THEN IF e.key \in {"a", "A"} /\ firstItem(s1) # Null
           THEN finish(Then(updateMultiselect(s1, firstItem(s1), lastItem(s1), TRUE),
                            stopEvent))
           ELSE s1
      ELSE IF IsWordChar(e.key)
      THEN LET s2 == visibleOptionsMarks(s1)
               focusEvent == nextMatchingItem(s1, e.key)
           IN  Then(finish(Then(s2, stopEvent)),
                    LAMBDA x : focusOnItem(x, focusEvent))
      ELSE IF e.key \in {"Enter", " "}
      THEN finish(keydownEnter(s1, target, e.shiftKey))
      ELSE finish(s1)


(***************************************************************************)
(* Inputs.                                                                 *)
(***************************************************************************)
\* the option list 1..n
FirstOptions(n) == [i \in 1..n |-> i]

\* the colours of the test fixture
Colours == FirstOptions(8)

\* option lists the host hands to setOptions: none, the colours and two numbers
OptionLists == { <<>>, FirstOptions(10) }

\* options the user moves input focus to while the filter changes
FocusTargets == {7}

\* filter texts the host sets
FilterTexts == { <<>>, <<"*">>, <<"r">>, <<"R">>, <<"1", ".">>, <<"(">> }

\* the last operation: its name, its event's target, key and modifiers, its argument
\* and what it returned
Op(name, target, key, shiftKey, ctrlKey, altOrMeta) ==
  [op |-> name, target |-> target, key |-> key, shiftKey |-> shiftKey,
   ctrlKey |-> ctrlKey, altOrMeta |-> altOrMeta, arg |-> <<>>, returned |-> FALSE]

Call(name) == Op(name, Null, "", FALSE, FALSE, FALSE)

\* a call of the host with its argument
CallWith(name, arg) == [Call(name) EXCEPT !.arg = arg]

\* a keyboard event
Key(key, shiftKey, ctrlKey, altKey, metaKey) ==
  [key |-> key, shiftKey |-> shiftKey, ctrlKey |-> ctrlKey, altKey |-> altKey,
   metaKey |-> metaKey]

\* keydown events the user produces
KeydownEvents ==
  { Key("Shift", TRUE, FALSE, FALSE, FALSE),
    Key("Enter", FALSE, FALSE, FALSE, FALSE),
    Key(" ", FALSE, FALSE, FALSE, FALSE),
    Key("Enter", TRUE, FALSE, FALSE, FALSE),
    Key("ArrowDown", FALSE, FALSE, FALSE, FALSE),
    Key("g", FALSE, FALSE, FALSE, FALSE),
    Key("a", FALSE, TRUE, FALSE, FALSE),
    Key("c", FALSE, TRUE, FALSE, FALSE),
    Key("Enter", FALSE, FALSE, TRUE, FALSE),
    Key("a", FALSE, TRUE, FALSE, TRUE),
    Key("Shift", TRUE, FALSE, TRUE, FALSE) }

\* keyup events the user produces
KeyupEvents ==
  { Key("Shift", FALSE, FALSE, FALSE, FALSE),
    Key("Shift", TRUE, FALSE, FALSE, FALSE),
    Key("ArrowDown", TRUE, FALSE, FALSE, FALSE),
    Key("ArrowDown", FALSE, FALSE, FALSE, FALSE) }

\* an option the user can point at or focus: in the list and not hidden
Reachable(o) == Includes(options, o) /\ ~hiddenByFilter[o]

\* the target of a keyboard event: the focused element
KeyTarget == activeElement

\* a keyboard event reaches the host: an option or the external input has focus
KeyboardReady == activeElement = External \/ (activeElement \in Opt /\ Reachable(activeElement))

(***************************************************************************)
(* Actions.                                                                *)
(***************************************************************************)
SetOptions(list) ==
  Becomes(setOptions(Enter(Cur), list), CallWith("setOptions", list))

SetFilter(filterText) ==
  Becomes(setFilter(Enter(Cur), filterText), Call("setFilter"))

SetCaseSensitive(b) ==
  Becomes(setCaseSensitive(Enter(Cur), b), Call("setCaseSensitive"))

SetMatchAnywhere(b) ==
  Becomes(setMatchAnywhere(Enter(Cur), b), Call("setMatchAnywhere"))

SetDisableFilter(b) ==
  Becomes(setDisableFilter(Enter(Cur), b), Call("setDisableFilter"))

SetDisabled(b) ==
  Becomes(setDisabled(Enter(Cur), b), Call("setDisabled"))

SetMultiSelectable(b) ==
  Becomes(setMultiSelectable(Enter(Cur), b), Call("setMultiSelectable"))

SetOrientation(o) ==
  Becomes(setOrientation(Enter(Cur), o), Call("setOrientation"))

SetValue(v) ==
  Becomes(setValue(Enter(Cur), v.isArray, v.list), CallWith("setValue", v))

\* isValid(val) is called: nothing is assigned, the result goes to the caller
IsValid(v) ==
  Becomes(Enter(Cur),
          [CallWith("isValid", v) EXCEPT !.returned = isValid(Cur, v.isNull, v.text)])

\* input focus moves to the external text input
FocusExternal ==
  /\ activeElement # External
  /\ Becomes([Enter(Cur) EXCEPT !.activeElement = External], Call("focusExternal"))

\* input focus moves to option t and the host forwards optionfocus
OptionFocus(t) ==
  /\ Reachable(t)
  /\ Becomes(onOptionFocus([Enter(Cur) EXCEPT !.activeElement = t], t),
             Op("optionfocus", t, "", FALSE, FALSE, FALSE))

Click(t, shiftKey, ctrlKey) ==
  /\ Reachable(t)
  /\ Becomes(onOptionClick(Enter(Cur), t, shiftKey, ctrlKey),
             Op("click", t, "", shiftKey, ctrlKey, FALSE))

Keydown(e) ==
  /\ KeyboardReady
  /\ Becomes(onOptionKeydown(Enter(Cur), KeyTarget, e),
             Op("keydown", KeyTarget, e.key, e.shiftKey, e.ctrlKey,
                e.altKey \/ e.metaKey))

Keyup(e) ==
  /\ KeyboardReady
  /\ Becomes(onOptionKeyup(Enter(Cur), KeyTarget, e.key, e.shiftKey),
             Op("keyup", KeyTarget, e.key, e.shiftKey, e.ctrlKey,
                e.altKey \/ e.metaKey))

(***************************************************************************)
(* Specifications.                                                         *)
(***************************************************************************)
DefaultConfig == [caseSensitive |-> FALSE, disableFilter |-> FALSE]

\* the controller as constructed by a host that has set no option yet
Init == StateIs(construct(DefaultConfig), Call("constructor"))

\* filter configuration and option list changes, with focus moving among the options
NextFilter ==
  \/ \E list \in OptionLists : SetOptions(list)
  \/ \E filterText \in FilterTexts : SetFilter(filterText)
  \/ \E b \in BOOLEAN : SetCaseSensitive(b)
  \/ \E b \in BOOLEAN : SetMatchAnywhere(b)
  \/ \E b \in BOOLEAN : SetDisableFilter(b)
  \/ \E b \in BOOLEAN : SetDisabled(b)
  \/ \E t \in FocusTargets : OptionFocus(t)
  \/ FocusExternal

SpecFilter == Init /\ [][NextFilter]_vars


\* length of the long option list of SpecRange
LongListLen == 11

\* the options the Shift-range gesture is made on
RangeTargets == {2, 3, LongListLen}

\* filter texts in force while the user clicks and types
EventFilters == { <<>>, <<"g">>, <<"(">> }

\* the host's markup: the options 1..n, at most one of them with `selected`
Markup(s, n, sel) ==
  [setOptions(s, FirstOptions(n)) EXCEPT
     !.selected = [o \in Opt |-> o = sel]]

\* a listbox with its options set, its filter text set, and nothing focused yet
InitEvents(multi, lengths) ==
  \E n \in lengths, sel \in 0..MaxListLen, filterText \in EventFilters :
    /\ sel <= n
    /\ StateIs(Enter(setFilter(Markup(setMultiSelectable(construct(DefaultConfig), multi),
                                      n, sel),
                               filterText)),
               Call("constructor"))

\* the events the host forwards
NextEvents ==
  \/ \E t \in Opt : OptionFocus(t)
  \/ FocusExternal
  \/ \E t \in Opt, shiftKey \in BOOLEAN, ctrlKey \in BOOLEAN : Click(t, shiftKey, ctrlKey)
  \/ \E e \in KeydownEvents : Keydown(e)
  \/ \E e \in KeyupEvents : Keyup(e)

\* the Shift-range gesture on a long list: focus, Shift down, Shift+click, Shift up
NextRange ==
  \/ \E t \in RangeTargets : OptionFocus(t)
  \/ Keydown(Key("Shift", TRUE, FALSE, FALSE, FALSE))
  \/ \E t \in RangeTargets : Click(t, TRUE, FALSE)
  \/ \E e \in KeyupEvents : Keyup(e)

InitSingle == InitEvents(FALSE, 0..MaxListLen)
SpecSingle == InitSingle /\ [][NextEvents]_vars

InitMulti == InitEvents(TRUE, 0..MaxListLen)
SpecMulti == InitMulti /\ [][NextEvents]_vars


(***************************************************************************)
(* Properties of the filter (SpecFilter).                                  *)
(***************************************************************************)
\* the text of option o holds the filter text itself: at its start, or anywhere
\* when matchAnywhere is set; letter case counts only when caseSensitive is set
TextHasFilter(o) ==
  LET text == TextOf(o)
      same(p, c) == IF caseSensitive THEN p = c ELSE Fold(p) = Fold(c)
      at(i) == /\ i + Len(filter) - 1 <= Len(text)
               /\ \A k \in 1..Len(filter) : same(filter[k], text[i + k - 1])
  IN  IF matchAnywhere THEN \E i \in 1..(Len(text) + 1) : at(i) ELSE at(1)

\* C1: whenever the full option list is non-empty, evaluating the visible options
\* yields a non-empty list (a filter that matches nothing yields the full list).
C1_VisibleNonEmpty ==
  options # <<>> => (~visibleOptionsThrows(Cur) /\ visibleOptions(Cur) # <<>>)

\* C2: with filtering enabled, a filter text that is neither empty nor `*`, and at
\* least one option whose text holds the filter text, the visible options are exactly
\* the options whose text holds the filter text, in list order.
C2_VisibleAreTheMatches ==
  (/\ ~disableFilter
   /\ filter # <<>>
   /\ filter # <<"*">>
   /\ \E i \in DOMAIN options : TextHasFilter(options[i]))
  => (/\ ~visibleOptionsThrows(Cur)
      /\ visibleOptions(Cur) = FilterSeq(options, {o \in Opt : TextHasFilter(o)}))

Rotated(n) == [i \in 1..n |-> (i % n) + 1]

\* option lists the host hands over: lists that differ in length, in order and in
\* the options they hold
HostLists ==
  { <<>>, FirstOptions(MaxListLen), Rotated(MaxListLen), FirstOptions(MaxListLen - 1),
    <<1, MaxListLen>> }

\* filter texts in force while the host sets options and values
HostFilters == { <<>>, <<"g">>, <<"(">> }

\* the calls of the host element, with focus moving among the options
NextHost ==
  \/ \E list \in HostLists : SetOptions(list)
  \/ \E filterText \in HostFilters : SetFilter(filterText)
  \/ \E t \in 1..MaxListLen : OptionFocus(t)

SpecHost == Init /\ [][NextHost]_vars

\* a scalar handed to setValue
Scalar(x) == [isArray |-> FALSE, list |-> <<x>>]

\* an array handed to setValue
Array(list) == [isArray |-> TRUE, list |-> list]

\* values the host hands to setValue: nothing, an option element, an option's value,
\* and arrays of values and of option elements
ValueArguments ==
  { [isArray |-> FALSE, list |-> <<>>], Scalar(2), Scalar(ValueOf(2)),
    Array(<<>>), Array(<<ValueOf(2)>>), Array(<<ValueOf(3), ValueOf(1)>>),
    Array(<<2, 1>>) }

\* keydown events of the selection gestures: Shift, Enter, Shift+Enter, Ctrl+A
GestureKeydownEvents ==
  { Key("Shift", TRUE, FALSE, FALSE, FALSE),
    Key("Enter", FALSE, FALSE, FALSE, FALSE),
    Key("Enter", TRUE, FALSE, FALSE, FALSE),
    Key("a", FALSE, TRUE, FALSE, FALSE) }

\* the selection gestures, and the values and filter texts the host sets
NextValue ==
  \/ \E t \in Opt : OptionFocus(t)
  \/ \E t \in Opt, shiftKey \in BOOLEAN : Click(t, shiftKey, FALSE)
  \/ \E e \in GestureKeydownEvents : Keydown(e)
  \/ Keyup(Key("Shift", FALSE, FALSE, FALSE, FALSE))
  \/ \E v \in ValueArguments : SetValue(v)
  \/ \E filterText \in EventFilters : SetFilter(filterText)

\* a listbox of either mode with a full-length option list
InitValue == \E multi \in BOOLEAN : InitEvents(multi, {MaxListLen})

SpecValue == InitValue /\ [][NextValue]_vars

\* a text handed to isValid
Text(text) == [isNull |-> FALSE, text |-> text]

\* what the host hands to isValid: null, the empty string, option texts alone and
\* separated by commas, with an empty token, with a blank, with an unknown token
ValidTexts ==
  { [isNull |-> TRUE, text |-> <<>>],
    Text(<<>>),
    Text(<<"R","e","d">>),
    Text(<<"R","e","d",",","B","l","u","e">>),
    Text(<<"R","e","d",",">>),
    Text(<<"R","e","d",","," ","B","l","u","e">>),
    Text(<<"R","e","d",",","r","e","d">>),
    Text(<<"R","e">>) }

\* option lists isValid is asked about: with and without Red, Blue and an option
\* without text
ValidLists == HostLists \cup { <<7, 1>>, <<7, 1, 12>> }

\* option lists are set and validated
NextValid ==
  \/ \E list \in ValidLists : SetOptions(list)
  \/ \E v \in ValidTexts : IsValid(v)

SpecValid == Init /\ [][NextValid]_vars

\* keydown events of the typeahead: letters some, one and no colour starts with
TypeaheadKeydownEvents ==
  { Key(k, FALSE, FALSE, FALSE, FALSE) : k \in {"p", "P", "g", "z"} }

\* filter texts in force while the user types ahead
TypeaheadFilters == { <<>>, <<"p">> }

\* a listbox of either mode holding the colours of the test fixture
InitTypeahead ==
  \E multi \in BOOLEAN, filterText \in TypeaheadFilters :
    StateIs(Enter(setFilter(Markup(setMultiSelectable(construct(DefaultConfig), multi),
                                   Len(Colours), Null),
                            filterText)),
            Call("constructor"))

\* the user moves focus and types letters; the host switches case sensitivity
NextTypeahead ==
  \/ \E t \in Opt : OptionFocus(t)
  \/ FocusExternal
  \/ \E e \in TypeaheadKeydownEvents : Keydown(e)
  \/ \E b \in BOOLEAN : SetCaseSensitive(b)

SpecTypeahead == InitTypeahead /\ [][NextTypeahead]_vars

\* filter texts set over a selection
VisualFilters == { <<>>, <<"g">>, <<"(">> }

\* a listbox of either mode with a full-length option list, one option selected or none
InitVisual == \E multi \in BOOLEAN : InitEvents(multi, {MaxListLen})

\* the filter configuration changes over a selection, with focus moving
NextVisual ==
  \/ \E filterText \in VisualFilters : SetFilter(filterText)
  \/ \E b \in BOOLEAN : SetCaseSensitive(b)
  \/ \E b \in BOOLEAN : SetMatchAnywhere(b)
  \/ \E b \in BOOLEAN : SetDisableFilter(b)
  \/ \E t \in Opt : OptionFocus(t)

SpecVisual == InitVisual /\ [][NextVisual]_vars

\* the keys of ListboxConfigOptions
ConfigKeys == {"caseSensitive", "disableFilter", "matchAnywhere", "multiSelectable",
               "orientation"}

\* the orientations of ListboxOrientation
Orientations == {"", "horizontal", "vertical"}

\* the ListboxConfigOptions a host constructs with: any of the keys, any value
Configs ==
  LET full == [caseSensitive : BOOLEAN, disableFilter : BOOLEAN, matchAnywhere : BOOLEAN,
               multiSelectable : BOOLEAN, orientation : Orientations]
  IN  { [key \in keys |-> c[key]] : c \in full, keys \in SUBSET ConfigKeys }

\* the controller as constructed with some configuration
InitConfig ==
  \E config \in Configs : StateIs(construct(config), CallWith("constructor", config))

\* the configuration is mutated after construction
NextConfig ==
  \/ \E b \in BOOLEAN : SetCaseSensitive(b)
  \/ \E b \in BOOLEAN : SetDisableFilter(b)
  \/ \E b \in BOOLEAN : SetMatchAnywhere(b)
  \/ \E b \in BOOLEAN : SetMultiSelectable(b)
  \/ \E o \in Orientations : SetOrientation(o)

SpecConfig == InitConfig /\ [][NextConfig]_vars

\* the host reads the value and assigns it back: listbox.value = listbox.value
WriteBackValue ==
  LET v == IF multiSelectable(Cur) THEN Array(value(Cur))
           ELSE IF value(Cur) = Null THEN [isArray |-> FALSE, list |-> <<>>]
           ELSE Scalar(value(Cur))
  IN  Becomes(setValue(Enter(Cur), v.isArray, v.list), CallWith("writeBackValue", v))

\* the selection gestures, with the host switching the mode and writing the value back
NextMode ==
  \/ \E t \in Opt : OptionFocus(t)
  \/ \E t \in Opt, shiftKey \in BOOLEAN : Click(t, shiftKey, FALSE)
  \/ \E e \in GestureKeydownEvents : Keydown(e)
  \/ \E b \in BOOLEAN : SetMultiSelectable(b)
  \/ WriteBackValue

SpecMode == InitValue /\ [][NextMode]_vars

(***************************************************************************)
(* The dev server: getManifests.                                           *)
(***************************************************************************)
\* the polls getManifests allows itself: count < 1000
MaxPolls == 1000

\* the milliseconds between two polls: setTimeout(r, 50)
PollInterval == 50

\* the packages whose manifests the build generates
ManifestNames == {"elements", "core", "tools", "docs"}

\* Manifest.getAll(config.rootDir): the manifests generated so far
getAll(d) == d.available

\* getManifests is called: let count = 0; let manifests = Manifest.getAll(...)
getManifestsCall(d) ==
  [d EXCEPT !.pc = "loop", !.count = 0, !.waited = 0, !.manifests = getAll(d)]

\* getManifests: the test of its while loop, then the await or the return; and, after
\* the timeout, count++ and the next Manifest.getAll
getManifestsStep(d) ==
  IF d.pc = "sleeping"
  THEN [d EXCEPT !.pc = "loop", !.count = @ + 1, !.waited = @ + PollInterval,
                 !.manifests = getAll(d)]
  ELSE IF d.count < MaxPolls /\ Cardinality(d.manifests) < 0
       THEN [d EXCEPT !.pc = "sleeping"]
       ELSE [d EXCEPT !.pc = "returned"]

\* the fields of the listbox, which the dev server leaves alone
listbox ==
  <<options, filter, showAllOptions, caseSensitive, disableFilter, matchAnywhere,
    shiftStartingItem, updateFocus, ariaActivedescendant, ariaDisabled,
    ariaMultiSelectable, selected, hiddenByFilter, activeDescendant, posInSet,
    setSize, items, tabActive, activeElement, fired, threw, defaultPrevented, last,
    ariaOrientation, seen>>

\* the build generates the manifest of one more package
GenerateManifest(m) ==
  /\ m \notin devServer.available
  /\ devServer' = [devServer EXCEPT !.available = @ \cup {m}]
  /\ UNCHANGED listbox

\* a page is requested: renderURL calls getManifests
GetManifests ==
  /\ devServer.pc \in {"idle", "returned"}
  /\ devServer' = getManifestsCall(devServer)
  /\ UNCHANGED listbox

\* getManifests goes on
GetManifestsStep ==
  /\ devServer.pc \in {"loop", "sleeping"}
  /\ devServer' = getManifestsStep(devServer)
  /\ UNCHANGED listbox

\* the dev server starts while the build generates the manifests
NextManifests ==
  \/ \E m \in ManifestNames : GenerateManifest(m)
  \/ GetManifests
  \/ GetManifestsStep

SpecManifests == Init /\ [][NextManifests]_vars

InitRange == InitEvents(TRUE, {LongListLen})
SpecRange == InitRange /\ [][NextRange]_vars

(***************************************************************************)
(* Properties of the selection (SpecSingle, SpecMulti, SpecRange).         *)
(***************************************************************************)
\* the options of the full list that are selected
SelectedSet == {o \in Range(options) : selected[o]}

\* the last operation is an event the host forwarded
AfterEvent == last.op \in {"click", "keydown", "keyup", "optionfocus"}

\* C4: in single-select mode at most one option of the full list is selected.
C4_AtMostOneSelected ==
  ~ariaMultiSelectable => Cardinality(SelectedSet) <= 1

\* C4 happens: a click has moved the selection to an option other than the first
C4_Witness ==
  /\ ~ariaMultiSelectable
  /\ last.op = "click"
  /\ last.target = 2
  /\ SelectedSet = {2}
  /\ Len(options) >= 3

\* C5: in single-select mode, after any click, keyboard or focus event, an option
\* that is selected is the current active descendant.
C5_SelectedIsActive ==
  (~ariaMultiSelectable /\ AfterEvent)
  => \A o \in SelectedSet : activeItem(Cur) = o

\* the options of the full list from index i to index j (0-based), either order
Between(i, j) ==
  {options[k] : k \in {k \in DOMAIN options :
                         /\ (IF i < j THEN i ELSE j) <= k - 1
                         /\ k - 1 <= (IF i < j THEN j ELSE i)}}

\* the range between the Shift anchor and the target of the step's event
StepRange == Between(IndexOf(options, shiftStartingItem), IndexOf(options, last'.target))

\* the step is a Shift+click (Ctrl as given) with an anchor of the list recorded
ShiftClickStep(ctrlKey) ==
  /\ ariaMultiSelectable
  /\ last'.op = "click"
  /\ last'.shiftKey
  /\ last'.ctrlKey = ctrlKey
  /\ Includes(options, shiftStartingItem)

\* the step is the keyup of a key pressed with Shift held, on an option, with an
\* anchor of the list recorded
ShiftKeyupStep ==
  /\ ariaMultiSelectable
  /\ last'.op = "keyup"
  /\ last'.shiftKey
  /\ last'.target \in Opt
  /\ Includes(options, shiftStartingItem)

\* C6: a range select between the anchor at index i and a target at index j changes
\* the selected flag of the options of index min(i,j)..max(i,j) only, and sets all of
\* those, whatever the order of i and j and the length of the list.
C6_RangeIsMinToMax ==
  [][ShiftClickStep(FALSE)
     => /\ \A o \in Range(options) \ StepRange : selected'[o] = selected[o]
        /\ \A o \in StepRange : selected'[o] = selected[shiftStartingItem]]_vars

\* C7: without Ctrl, a Shift-range gesture (Shift+click, or the keyup of a key pressed
\* with Shift held) sets every option of the range to the selected state the anchor
\* option has: a selected anchor selects the range, an unselected one deselects it.
C7_RangeTakesAnchorState ==
  [][(ShiftClickStep(FALSE) \/ ShiftKeyupStep)
     => IF selected[shiftStartingItem]
        THEN StepRange \subseteq {o \in Opt : selected'[o]}
        ELSE StepRange \cap {o \in Opt : selected'[o]} = {}]_vars

\* the step is a keydown of Ctrl+A
CtrlAStep ==
  /\ ariaMultiSelectable
  /\ last'.op = "keydown"
  /\ last'.key \in {"a", "A"}
  /\ last'.ctrlKey
  /\ ~last'.altOrMeta

\* C8: Ctrl+A deselects every option of the full list if all of them are selected,
\* and otherwise selects every option of the full list, hidden by the filter or not.
C8_CtrlATogglesAll ==
  [][CtrlAStep
     => IF SelectedSet = Range(options)
        THEN \A o \in Range(options) : ~selected'[o]
        ELSE \A o \in Range(options) : selected'[o]]_vars

\* C9: a Shift-range gesture with Ctrl held toggles the range: it is deselected if
\* every option of it is selected, and selected otherwise.
C9_CtrlRangeToggles ==
  [][ShiftClickStep(TRUE)
     => IF StepRange \subseteq SelectedSet
        THEN \A o \in StepRange : ~selected'[o]
        ELSE \A o \in StepRange : selected'[o]]_vars

\* the step is a click without Shift, or a keydown of Enter or Space without any
\* modifier, on an option
PlainActivationStep ==
  /\ ariaMultiSelectable
  /\ last'.target \in Opt
  /\ \/ last'.op = "click" /\ ~last'.shiftKey
     \/ /\ last'.op = "keydown"
        /\ last'.key \in {"Enter", " "}
        /\ ~last'.shiftKey /\ ~last'.ctrlKey /\ ~last'.altOrMeta

\* C10: in multi-select mode a click without Shift, or Enter/Space without modifiers,
\* on an option flips that option's selected flag and no other option's.
C10_PlainActivationFlipsTarget ==
  [][PlainActivationStep
     => selected' = [selected EXCEPT ![last'.target] = ~selected[last'.target]]]_vars

\* C10 happens: Enter on a selected option has deselected it, beside an option that
\* stays selected
C10_Witness ==
  /\ ariaMultiSelectable
  /\ last.op = "keydown"
  /\ last.key = "Enter"
  /\ ~last.shiftKey /\ ~last.ctrlKey /\ ~last.altOrMeta
  /\ last.target = 2
  /\ SelectedSet = {1}
  /\ fired = <<"change">>

\* the options of the full list that are selected once the step is taken
SelectedSetNext == {o \in Range(options') : selected'[o]}

\* C11: in single-select mode a click on an option leaves that option as the one and
\* only selected option of the full list, whatever was selected before.
C11_ClickSelectsOnlyTarget ==
  [][(~ariaMultiSelectable /\ last'.op = "click")
     => SelectedSetNext = {last'.target}]_vars

\* C11 happens: a click on the third option has changed the derived value: the third
\* option is the only selected one
C11_Witness ==
  /\ ~ariaMultiSelectable
  /\ last.op = "click"
  /\ last.target = 3
  /\ SelectedSet = {3}
  /\ fired = <<"change">>

\* C12: in single-select mode, when focus moves to an option (optionfocus), that
\* option becomes the one and only selected option.
C12_FocusSelects ==
  [][(~ariaMultiSelectable /\ last'.op = "optionfocus")
     => SelectedSetNext = {last'.target}]_vars

(***************************************************************************)
(* Properties of the option list and its annotations (SpecHost).          *)
(***************************************************************************)
\* the step is a call of setOptions
SetOptionsStep == last'.op = "setOptions"

\* the visible options of the list handed to setOptions, under the current filter
VisibleOfArgument == visibleOptions([Cur EXCEPT !.options = last'.arg])

\* C13: setOptions with a list holding the current options in the current order
\* changes nothing (annotations, tracker items and active item stay); with any other
\* list it replaces the full list and re-initialises the tracker with the visible
\* options of the new list.
C13_SetOptionsIdempotent ==
  [][SetOptionsStep
     => IF last'.arg = options
        THEN UNCHANGED <<options, filter, showAllOptions, caseSensitive, disableFilter,
                         matchAnywhere, shiftStartingItem, updateFocus,
                         ariaActivedescendant, ariaDisabled, ariaMultiSelectable,
                         selected, hiddenByFilter, activeDescendant, posInSet, setSize,
                         items, tabActive, activeElement>>
        ELSE /\ options' = last'.arg
             /\ items' = VisibleOfArgument
             /\ tabActive' = IF items' = <<>> THEN Null ELSE items'[1]]_vars

\* C14: every option of the full list has set-size equal to the length of the full
\* list and position-in-set equal to its index in the full list, under every filter.
C14_AnnotationsOverFullList ==
  \A i \in DOMAIN options :
    /\ setSize[options[i]] = Len(options)
    /\ posInSet[options[i]] = i - 1

\* C14 happens: a filter that hides the first option was set after the list was, and
\* the first option, last of the list and hidden, is still annotated with the last
\* index and the length of the full list
C14_Witness ==
  /\ last.op = "setFilter"
  /\ options = Rotated(MaxListLen)
  /\ filter = <<"g">>
  /\ hiddenByFilter[1]
  /\ posInSet[1] = MaxListLen - 1
  /\ setSize[1] = MaxListLen

\* C15: the position-in-set an option publishes is 1-based: the option at index k
\* (0-based) of the full list publishes k + 1.
C15_PublishedPositionOneBased ==
  \A i \in DOMAIN options : posInSet[options[i]] = i

(***************************************************************************)
(* Properties of the value and the notifications (SpecValue).              *)
(***************************************************************************)
\* the step is a call of setValue
SetValueStep == last'.op = "setValue"

\* the first element of the argument of setValue, or the scalar itself
FirstOfArgument == IF last'.arg.list = <<>> THEN Null ELSE last'.arg.list[1]

\* C16: setValue leaves selected exactly the options that match: in multi-select
\* mode with an array, the options whose value is an element of the array; otherwise
\* the option identical to the scalar or to the first element of the array. In
\* single-select mode at most one option is selected afterwards.
C16_SetValueSelectsMatches ==
  [][SetValueStep
     => /\ \A o \in Range(options) :
             selected'[o] = IF ariaMultiSelectable /\ last'.arg.isArray
                            THEN \E i \in DOMAIN last'.arg.list :
                                   last'.arg.list[i] = ValueOf(o)
                            ELSE o = FirstOfArgument
        /\ ~ariaMultiSelectable => Cardinality(SelectedSetNext) <= 1]_vars

\* C16 happens: in multi-select mode setValue with the values of the third and the
\* first option has selected those two options
C16_Witness ==
  /\ ariaMultiSelectable
  /\ last.op = "setValue"
  /\ last.arg = Array(<<ValueOf(3), ValueOf(1)>>)
  /\ SelectedSet = {1, 3}
  /\ Len(options) >= 3

\* the values of the selected options of the full list, in list order
SelectedValues ==
  LET chosen == FilterSeq(options, {o \in Opt : selected[o]})
  IN  [i \in DOMAIN chosen |-> ValueOf(chosen[i])]

\* C17: the derived value is, in multi-select mode, the values of the selected
\* options in list order and, in single-select mode, the value of the first selected
\* option, absent when no option is selected.
C17_ValueIsSelectedValues ==
  value(Cur) = IF ariaMultiSelectable THEN SelectedValues
               ELSE IF SelectedValues = <<>> THEN Null ELSE SelectedValues[1]

\* what get value returns, as a function of the state
DerivedValue == value(Cur)

\* the step is a filter change or a setValue call of the host
ProgrammaticStep == last'.op \in {"setFilter", "setValue"}

\* the step is a click or a keyboard event on the listbox
GestureStep == last'.op \in {"click", "keydown", "keyup"}

\* C18: a filter change or setValue that changes the derived value dispatches input,
\* and never dispatches change; a click or keyboard gesture that changes the derived
\* value dispatches change, and never dispatches input.
C18_NotificationKinds ==
  [][/\ ProgrammaticStep
        => /\ ~Includes(fired', "change")
           /\ DerivedValue' # DerivedValue => Includes(fired', "input")
     /\ GestureStep
        => /\ ~Includes(fired', "input")
           /\ DerivedValue' # DerivedValue => Includes(fired', "change")]_vars

(***************************************************************************)
(* Properties of isValid (SpecValid).                                      *)
(***************************************************************************)
\* the step is a call of isValid
IsValidStep == last'.op = "isValid"

\* text[i..j] is a token of text: it holds no comma and is bounded on each side by
\* a comma or an end of the text
IsToken(text, i, j) ==
  /\ i = 1 \/ text[i - 1] = ","
  /\ j = Len(text) \/ text[j + 1] = ","
  /\ \A k \in i..j : text[k] # ","

\* the comma-separated tokens of text
Tokens(text) ==
  { SubSeq(text, p[1], p[2]) :
      p \in {p \in (1..(Len(text) + 1)) \X (0..Len(text)) :
               p[1] <= p[2] + 1 /\ IsToken(text, p[1], p[2])} }

\* the texts of the options of the full list
OptionTexts == {TextOf(o) : o \in Range(options)}

\* C19: isValid(text) returns true exactly when every comma-separated token of text
\* is the text of an option of the full list, and it changes no state of the listbox.
C19_IsValidChecksEveryToken ==
  [][(IsValidStep /\ ~last'.arg.isNull)
     => /\ last'.returned = (Tokens(last'.arg.text) \subseteq OptionTexts)
        /\ UNCHANGED <<options, filter, showAllOptions, caseSensitive, disableFilter,
                        matchAnywhere, shiftStartingItem, updateFocus,
                        ariaActivedescendant, ariaDisabled, ariaMultiSelectable,
                        selected, hiddenByFilter, activeDescendant, posInSet, setSize,
                        items, tabActive, activeElement>>]_vars

\* C19 happens: two option texts separated by a comma were found valid
C19_Witness ==
  /\ last.op = "isValid"
  /\ last.arg = Text(<<"R","e","d",",","B","l","u","e">>)
  /\ last.returned
  /\ Len(options) >= 2

\* C20: isValid returns false for the empty string and for null, whatever the option
\* list is.
C20_IsValidRejectsEmpty ==
  (last.op = "isValid" /\ (last.arg.isNull \/ last.arg.text = <<>>))
  => ~last.returned

(***************************************************************************)
(* Properties of the disabled and of the empty listbox.                    *)
(***************************************************************************)
\* the options of the full list that carry no hidden-by-filter marker
ShownOptions == FilterSeq(options, {o \in Opt : ~hiddenByFilter[o]})

\* the step is an operation that sets filter or selection state
MutationStep ==
  last'.op \in {"setFilter", "setCaseSensitive", "setMatchAnywhere", "setDisableFilter",
                "setValue", "click", "keydown", "keyup"}

\* C21: while the listbox is disabled, an operation that sets filter or selection
\* state changes neither the filter text, the options shown, any selected flag nor
\* the active item, and dispatches no notification.
C21_DisabledIsNoOp ==
  [][(ariaDisabled /\ MutationStep)
     => /\ UNCHANGED <<filter, selected, tabActive>>
        /\ ShownOptions' = ShownOptions
        /\ fired' = <<>>]_vars

\* C22: with an empty option list the derived value is absent or empty, there is no
\* active item, and the last operation has dispatched no notification.
C22_EmptyListIsQuiet ==
  options = <<>>
  => /\ IF ariaMultiSelectable THEN value(Cur) = <<>> ELSE value(Cur) = Null
     /\ activeItem(Cur) = Null
     /\ fired = <<>>

(***************************************************************************)
(* Properties of the keyboard handling.                                    *)
(***************************************************************************)
\* the step is a keydown of one word character without any modifier
TypeaheadStep ==
  /\ last'.op = "keydown"
  /\ IsWordChar(last'.key)
  /\ ~last'.shiftKey /\ ~last'.ctrlKey /\ ~last'.altOrMeta

\* option o is visible, not disabled, and its text starts with character c
StartsWith(o, c) ==
  /\ Includes(visibleOptions(Cur), o)
  /\ ~DisabledOf(o)
  /\ TextOf(o) # <<>>
  /\ IF caseSensitive THEN TextOf(o)[1] = c ELSE Fold(TextOf(o)[1]) = Fold(c)

\* the visible options in circular order, from just after the active item round to
\* the active item
AfterActive ==
  LET shown == visibleOptions(Cur)
      a == IndexOf(shown, activeItem(Cur)) + 1
  IN  SubSeq(shown, a + 1, Len(shown)) \o SubSeq(shown, 1, a)

\* C23: a keydown of one alphanumeric character without modifiers moves focus to the
\* first visible, non-disabled option whose text starts with the character, searching
\* circularly from just after the active item; with no such option focus stays.
C23_TypeaheadCycles ==
  [][TypeaheadStep
     => LET hits == {i \in DOMAIN AfterActive : StartsWith(AfterActive[i], last'.key)}
        IN  IF hits = {} THEN activeElement' = activeElement
            ELSE activeElement' = AfterActive[CHOOSE i \in hits : \A j \in hits : i <= j]]_vars

\* the step is a keydown with Alt or Meta held, or with Ctrl held and a key other
\* than a or A
IgnoredKeydownStep ==
  /\ last'.op = "keydown"
  /\ last'.altOrMeta \/ (last'.ctrlKey /\ last'.key \notin {"a", "A"})

\* C24: a keydown with Alt or Meta held, or with Ctrl held and a key other than a/A,
\* changes no selected flag, not the active item, the Shift anchor or the filter,
\* dispatches no notification and is neither stopped nor default-prevented.
C24_ModifiedKeydownIgnored ==
  [][IgnoredKeydownStep
     => /\ UNCHANGED <<selected, tabActive, ariaActivedescendant, activeElement,
                        shiftStartingItem, filter, hiddenByFilter>>
        /\ fired' = <<>>
        /\ ~defaultPrevented']_vars

\* the step is a keydown of Enter or Space without any modifier, on an option
EnterOnOptionStep ==
  /\ last'.op = "keydown"
  /\ last'.key \in {"Enter", " "}
  /\ ~last'.shiftKey /\ ~last'.ctrlKey /\ ~last'.altOrMeta
  /\ last'.target \in Opt

\* C25: in single-select mode with a non-empty list, Enter or Space on an option
\* leaves exactly one option selected, the active item (the tracker's first item
\* when no active-descendant reference is set).
C25_EnterCommitsActiveItem ==
  [][(~ariaMultiSelectable /\ options # <<>> /\ EnterOnOptionStep)
     => SelectedSetNext = {activeItem(Cur)}]_vars

\* the step is a keydown of Enter or Space with Shift held, on an option, with an
\* anchor of the list recorded
ShiftEnterStep ==
  /\ ariaMultiSelectable
  /\ last'.op = "keydown"
  /\ last'.key \in {"Enter", " "}
  /\ last'.shiftKey /\ ~last'.ctrlKey /\ ~last'.altOrMeta
  /\ last'.target \in Opt
  /\ Includes(options, shiftStartingItem)

\* C26: in multi-select mode Shift+Enter or Shift+Space on an option sets the options
\* between the recorded Shift anchor and the target to the anchor's selected state
\* and leaves the others, wherever the active item is by then.
C26_ShiftEnterUsesAnchor ==
  [][ShiftEnterStep
     => /\ \A o \in StepRange : selected'[o] = selected[shiftStartingItem]
        /\ \A o \in Range(options) \ StepRange : selected'[o] = selected[o]]_vars

\* the step is the keyup of the Shift key
ShiftReleaseStep ==
  /\ ariaMultiSelectable
  /\ last'.op = "keyup"
  /\ last'.key = "Shift"

\* C27: in multi-select mode the keyup of the Shift key leaves no anchor recorded.
C27_ShiftKeyupClearsAnchor ==
  [][ShiftReleaseStep => shiftStartingItem' = Null]_vars

(***************************************************************************)
(* Properties of the active item.                                          *)
(***************************************************************************)
\* the options of the full list that carry the active-descendant marker once the
\* step is taken
MarkedActiveNext == {o \in Range(options') : activeDescendant'[o]}

\* C28: after a click on an option that was not the tracker's active item, that
\* option is the tracker's active item, holds focus and is the one option carrying
\* the active-descendant marker; after every click the active-descendant reference
\* designates the tracker's active item.
C28_ClickMovesActiveItem ==
  [][last'.op = "click"
     => /\ last'.target # tabActive
           => /\ tabActive' = last'.target
              /\ activeElement' = last'.target
              /\ MarkedActiveNext = {last'.target}
        /\ ariaActivedescendant' = IdOf(tabActive')]_vars

\* the step is a change of the filter text or of the filter configuration
FilterStep ==
  last'.op \in {"setFilter", "setCaseSensitive", "setMatchAnywhere", "setDisableFilter"}

\* C29: a change of the filter text, of caseSensitive, of matchAnywhere or of
\* disableFilter changes no option's selected flag.
C29_FilteringKeepsSelection ==
  [][FilterStep => selected' = selected]_vars

\* C29 happens: a filter text was set that hides the selected option, which stays
\* selected
C29_Witness ==
  /\ last.op = "setFilter"
  /\ filter = <<"g">>
  /\ selected[1]
  /\ hiddenByFilter[1]

\* C30: if the full option list is non-empty, the tracker's active item is one option
\* of the full list; if the list is empty there is no active item.
C30_OneActiveItem ==
  IF options = <<>> THEN tabActive = Null ELSE Includes(options, tabActive)


(***************************************************************************)
(* Properties of the order of effects within one handler.                  *)
(***************************************************************************)
\* C31: within one event-handling turn, at the moment any change or input notification
\* is dispatched, the selected flags, the tracker's active item and the
\* active-descendant markers already have the values they have when the handler
\* returns.
C31_NotifiedAfterMutation ==
  ~threw => \A i \in DOMAIN seen : /\ seen[i].selected = selected
                                  /\ seen[i].tabActive = tabActive
                                  /\ seen[i].activeDescendant = activeDescendant


(***************************************************************************)
(* Properties of the construction (SpecConfig).                            *)
(***************************************************************************)
\* the value the constructed coordinator is to report for a configuration key: the
\* supplied one, else the default
Configured(key, default) ==
  IF key \in DOMAIN last.arg THEN last.arg[key] ELSE default

\* C32: immediately after construction the coordinator reports each configuration
\* value supplied (caseSensitive, disableFilter, matchAnywhere, multiSelectable,
\* orientation), and the default (false / '') for each one not supplied.
C32_ConstructionConfigures ==
  last.op = "constructor"
  => /\ caseSensitive = Configured("caseSensitive", FALSE)
     /\ disableFilter = Configured("disableFilter", FALSE)
     /\ matchAnywhere = Configured("matchAnywhere", FALSE)
     /\ multiSelectable(Cur) = Configured("multiSelectable", FALSE)
     /\ orientation(Cur) = Configured("orientation", "")


(***************************************************************************)
(* Properties of the hidden-by-filter markers (SpecFilter).                *)
(***************************************************************************)
\* the step is a filter pass: a filter setting changed and #onFilterChange went on
\* to evaluate the visible options
FilterPass ==
  /\ FilterStep
  /\ ~ariaDisabled
  /\ <<filter, caseSensitive, matchAnywhere, disableFilter>>'
       # <<filter, caseSensitive, matchAnywhere, disableFilter>>

\* the step evaluated the visible options to the end: a filter pass, or a new option
\* list
EvaluationStep ==
  /\ FilterPass \/ (last'.op = "setOptions" /\ options' # options)
  /\ ~threw'

\* the visible options as the state after the step gives them
VisibleNext ==
  visibleOptions([options |-> options', filter |-> filter',
                  showAllOptions |-> showAllOptions', caseSensitive |-> caseSensitive',
                  disableFilter |-> disableFilter', matchAnywhere |-> matchAnywhere'])

\* C33: after every evaluation of the visible options, an option of the full list
\* carries the hidden-by-filter marker if and only if it is not in the visible set
\* returned; and after a filter change that ends with the empty filter text no option
\* of the list is marked hidden.
C33_MarkersMatchVisible ==
  [][/\ EvaluationStep
        => \A o \in Range(options') :
             hiddenByFilter'[o] <=> ~Includes(VisibleNext, o)
     /\ (last'.op = "setFilter" /\ filter' = <<>>)
        => \A o \in Range(options') : ~hiddenByFilter'[o]]_vars


(***************************************************************************)
(* Properties of the deferred focus update (SpecFilter).                   *)
(***************************************************************************)
\* after the step the option that has input focus is an option of the list marked
\* hidden-by-filter
FocusedHiddenNext ==
  /\ activeElement' \in Opt
  /\ Includes(options', activeElement')
  /\ hiddenByFilter'[activeElement']

\* the first of the visible options after the step, if any
FirstVisibleNext == IF VisibleNext = <<>> THEN Null ELSE VisibleNext[1]

\* C34: the update-focus flag becomes set only by an evaluation of the visible options
\* that marks the focused option hidden; a filter pass entered with the flag unset
\* re-initialises the tracker (active item: the first visible option) and leaves the
\* flag set exactly if it hid the focused option; a filter pass entered with the flag
\* set updates the tracker (active item kept if still visible, else the first visible
\* option) and leaves the flag unset.
C34_DeferredFocusUpdate ==
  [][/\ (~updateFocus /\ updateFocus') => FocusedHiddenNext
     /\ (FilterPass /\ ~updateFocus)
        => /\ items' = VisibleNext
           /\ tabActive' = FirstVisibleNext
           /\ updateFocus' <=> FocusedHiddenNext
     /\ (FilterPass /\ updateFocus)
        => /\ items' = VisibleNext
           /\ tabActive' = IF Includes(VisibleNext, tabActive) THEN tabActive
                            ELSE FirstVisibleNext
           /\ ~updateFocus']_vars


(***************************************************************************)
(* Properties of getManifests (SpecManifests).                             *)
(***************************************************************************)
\* C35: getManifests waits for the manifests: while the manifest list is empty it polls
\* again, one poll every 50 ms, up to 1000 polls, and it returns an empty list only
\* after all 1000 polls have found none.
C35_GetManifestsWaits ==
  /\ devServer.count <= MaxPolls
  /\ devServer.waited = PollInterval * devServer.count
  /\ (devServer.pc = "returned" /\ devServer.manifests = {})
     => devServer.count = MaxPolls


(***************************************************************************)
(* Properties of the number of notifications (SpecValue).                  *)
(***************************************************************************)
\* the step changes what get value returns
DerivedValueChanges ==
  value([options |-> options', selected |-> selected',
         ariaMultiSelectable |-> ariaMultiSelectable']) # DerivedValue

\* C36: a filter change, a setValue call, a click, a keydown or a keyup dispatches
\* exactly one notification when it changes the derived value and none when it does
\* not, in single-select and in multi-select mode.
C36_OneNotificationPerChange ==
  [][(ProgrammaticStep \/ GestureStep)
     => Len(fired') = IF DerivedValueChanges THEN 1 ELSE 0]_vars


(***************************************************************************)
(* Properties of the value round trip and of the mode switch (SpecMode).   *)
(***************************************************************************)
\* C37: in single-select and in multi-select mode, reading the derived value and
\* writing it straight back with setValue leaves every option's selected flag
\* unchanged, whatever the selection.
C37_ValueRoundTrip ==
  [][last'.op = "writeBackValue" => selected' = selected]_vars

\* C38: once multiSelectable is false, at once after the switch from true and after
\* any later event, at most one option is selected.
C38_SingleAfterSwitch ==
  ~multiSelectable(Cur) => \A a \in SelectedSet, b \in SelectedSet : a = b


(***************************************************************************)
(* Properties of the active descendant under filtering (SpecHost).         *)
(***************************************************************************)
\* the options of the full list that carry the active-descendant marker
MarkedActive == {o \in Range(options) : activeDescendant[o]}

\* C39: after a filter change or setOptions, the option designated by the
\* active-descendant reference, and any option of the list carrying the
\* active-descendant marker, is not marked hidden-by-filter, and at most one option of
\* the full list carries the marker.
C39_ActiveDescendantVisible ==
  last.op \in {"setFilter", "setCaseSensitive", "setMatchAnywhere", "setDisableFilter",
               "setOptions"}
  => /\ \A o \in Range(options) :
          (IdOf(o) = ariaActivedescendant \/ activeDescendant[o]) => ~hiddenByFilter[o]
     /\ \A a \in MarkedActive, b \in MarkedActive : a = b

====
